---- MODULE Spec2Model ----
(***************************************************************************)
(* TypewriterTextbox (src/src/utils/TypewriterTextbox.js): the message     *)
(* queue, the character-by-character reveal, skip, the continue gate and   *)
(* the display modes, as a state machine.                                  *)
(*                                                                         *)
(* JavaScript is single threaded: one action is one task of the event loop *)
(* (an API call, an input event, a timer callback) together with the       *)
(* promise continuations (microtasks) it releases, which run before the    *)
(* next task.  A string is a sequence of one-character strings.  Indices   *)
(* keep the source's 0-based values; sequences are read at index + 1.      *)
(***************************************************************************)
EXTENDS Integers, Sequences, FiniteSets, TLC

\* ------------------------------------------------------------------ bounds

\* Number of messages that are enqueued in one behaviour.
MaxMsgs == 3

\* The texts a caller enqueues: the empty string, "ab", and "{w:x}y".
Texts == { <<>>, <<"a", "b">>, <<"{", "w", ":", "x", "}", "y">> }

\* The arrays addMultipleToQueue is called with.
Batches == { <<t1, t2>> : t1 \in {<<"a", "b">>}, t2 \in Texts }

\* Number of pieces a raw text for parseText is put together from.
MaxPieces == 4

\* The pieces: the characters of the marker syntax, a word character, a space,
\* and a whole marker.
Pieces == { <<"{">>, <<"}">>, <<":">>, <<"a">>, <<" ">>, <<"{", "w", ":", "x", "}">> }

RECURSIVE Concat(_)
Concat(pieces) == IF pieces = <<>> THEN <<>> ELSE Head(pieces) \o Concat(Tail(pieces))

\* The raw texts typeText is called with.
RawTexts == { Concat(pieces) : pieces \in UNION { [1..n -> Pieces] : n \in 0..MaxPieces } }

\* ------------------------------------------------------------ parseText

\* effect: null
NoEffect == <<>>

\* \w of the regular expression
WordChars ==
    { "a", "b", "c", "d", "e", "f", "g", "h", "i", "j", "k", "l", "m",
      "n", "o", "p", "q", "r", "s", "t", "u", "v", "w", "x", "y", "z",
      "A", "B", "C", "D", "E", "F", "G", "H", "I", "J", "K", "L", "M",
      "N", "O", "P", "Q", "R", "S", "T", "U", "V", "W", "X", "Y", "Z",
      "0", "1", "2", "3", "4", "5", "6", "7", "8", "9", "_" }

\* The least member of a set of positions, or 0 when it is empty.
Least(hits) ==
    CHOOSE least \in { IF h = {} THEN 0 ELSE CHOOSE i \in h : \A j \in h : i <= j
                       : h \in {hits} } : TRUE

\* The expression with [^}]* for [^}]+: a marker may have no content.
MatchAtStar(text, i) ==
    IF text[i] # "{" THEN <<>>
    ELSE LET colon == Least({ j \in (i + 1)..Len(text) : text[j] \notin WordChars })
         IN  IF colon = 0 \/ colon = i + 1 \/ text[colon] # ":" THEN <<>>
             ELSE LET close == Least({ j \in (colon + 1)..Len(text) : text[j] = "}" })
                  IN  IF close = 0 THEN <<>>
                      ELSE <<colon, close>>

\* /\{(\w+):([^}]+)\}/ anchored at position i (1-based): <<colon, close>> of
\* the match, or <<>> when there is none.  \w+ is greedy and must be followed
\* by ":", which is no word character, so it ends at the first non-word
\* character; [^}]+ must be followed by "}", so it ends at the first "}".
MatchAt(text, i) ==
    IF text[i] # "{" THEN <<>>
    ELSE LET colon == Least({ j \in (i + 1)..Len(text) : text[j] \notin WordChars })
         IN  IF colon = 0 \/ colon = i + 1 \/ text[colon] # ":" THEN <<>>
             ELSE LET close == Least({ j \in (colon + 1)..Len(text) : text[j] = "}" })
                  IN  IF close = 0 \/ close = colon + 1 THEN <<>>
                      ELSE <<colon, close>>

\* regex.exec(text) with regex.lastIndex = lastIndex: the 1-based position of
\* the leftmost match at or after it, or 0 (null).
Exec(text, lastIndex) ==
    Least({ i \in (lastIndex + 1)..Len(text) : MatchAt(text, i) # <<>> })

RECURSIVE ParseLoop(_, _, _)
\* The while loop of parseText and the code after it.
ParseLoop(text, lastIndex, segments) ==
    LET m == Exec(text, lastIndex) IN
    IF m # 0
    THEN LET colon  == MatchAt(text, m)[1]
             close  == MatchAt(text, m)[2]
             before == IF m - 1 > lastIndex
                       THEN Append(segments,
                                [text |-> SubSeq(text, lastIndex + 1, m - 1),
                                 effect |-> NoEffect])
                       ELSE segments
             marked == Append(before,
                                [text |-> SubSeq(text, colon + 1, close - 1),
                                 effect |-> SubSeq(text, m + 1, colon - 1)])
         IN  ParseLoop(text, close, marked)
    ELSE LET rest == IF lastIndex < Len(text)
                     THEN Append(segments,
                                [text |-> SubSeq(text, lastIndex + 1, Len(text)),
                                 effect |-> NoEffect])
                     ELSE segments
         IN  IF Len(rest) = 0
             THEN <<[text |-> text, effect |-> NoEffect]>>
             ELSE rest

\* parseText(text): text is evaluated once, the loop starts with lastIndex 0
\* and no segments.
parseText(text) == CHOOSE segments \in { ParseLoop(raw, 0, <<>>) : raw \in {text} } : TRUE

\* ------------------------------------------------------------------ state

VARIABLES
    options,                 \* this.options: waitForInput, skippable, type
    skipListeners,           \* skipKeyHandler / skipClickHandler are subscribed
    continueListeners,       \* continueKeyHandler / continueClickHandler are subscribed
    queue,                   \* this.queue, each text with the number it was enqueued as
    isTyping,                \* this.isTyping
    currentText,             \* this.currentText
    currentIndex,            \* this.currentIndex
    timeoutId,               \* this.timeoutId: "null", or the id of a "live" or a "fired" timer
    hasSkippedCurrentText,   \* this.hasSkippedCurrentText
    currentFullText,         \* this.currentFullText: Null or Some(text)
    segments,                \* this.segments
    currentSegmentIndex,     \* this.currentSegmentIndex
    currentSegmentCharIndex, \* this.currentSegmentCharIndex
    continueResolve,         \* this.continueResolve: "null", the resolve a processQueue
                             \* awaits ("loop"), or the resolve of the promise skip() made
                             \* and nobody awaits ("orphan")
    indicator,               \* this.continueIndicator.style.display
    children,                \* the children of textElement before the continue indicator
    attached,                \* textElement is in its container
    orphanTimers,            \* live typeChar timers whose id this.timeoutId no longer holds
    delayTimers,             \* live timers of wait(delayAfter)
    nextId,                  \* history: the number the next enqueued message gets
    started,                 \* history: the numbers of the messages typeText was called with
    discarded,               \* history: the numbers of the messages clearQueue removed
    lastOp,                  \* history: the task that ran last
    stepAppends,             \* history: characters typeChar appended in the last task
    stepGates,               \* history: processQueue continuations resumed after their gate
                             \* in the last task
    interrupted,             \* history: clearQueue cut a reveal short and no typeText began since
    staleWaiter,             \* history: continueResolve was stored before the last clearQueue
    staleDelays,             \* history: delay timers that were started before the last clearQueue
    stepStale                \* history: the last task resumed a continuation suspended before
                             \* a clearQueue

vars == << options, skipListeners, continueListeners, queue, isTyping, currentText,
           currentIndex, timeoutId, hasSkippedCurrentText, currentFullText, segments,
           currentSegmentIndex, currentSegmentCharIndex, continueResolve, indicator,
           children, attached, orphanTimers, delayTimers, nextId, started, discarded,
           lastOp, stepAppends, stepGates, interrupted, staleWaiter, staleDelays,
           stepStale >>

\* The state as one record, so that the methods compose as functions of it.
Cur ==
    [ options |-> options, skipListeners |-> skipListeners,
      continueListeners |-> continueListeners, queue |-> queue, isTyping |-> isTyping,
      currentText |-> currentText, currentIndex |-> currentIndex, timeoutId |-> timeoutId,
      hasSkippedCurrentText |-> hasSkippedCurrentText,
      currentFullText |-> currentFullText, segments |-> segments,
      currentSegmentIndex |-> currentSegmentIndex,
      currentSegmentCharIndex |-> currentSegmentCharIndex,
      continueResolve |-> continueResolve, indicator |-> indicator,
      children |-> children, attached |-> attached, orphanTimers |-> orphanTimers,
      delayTimers |-> delayTimers, nextId |-> nextId, started |-> started,
      discarded |-> discarded, lastOp |-> lastOp, stepAppends |-> stepAppends,
      stepGates |-> stepGates, interrupted |-> interrupted, staleWaiter |-> staleWaiter,
      staleDelays |-> staleDelays, stepStale |-> stepStale ]

\* The next state is the record s.
Set(s) ==
    /\ options' = s.options
    /\ skipListeners' = s.skipListeners
    /\ continueListeners' = s.continueListeners
    /\ queue' = s.queue
    /\ isTyping' = s.isTyping
    /\ currentText' = s.currentText
    /\ currentIndex' = s.currentIndex
    /\ timeoutId' = s.timeoutId
    /\ hasSkippedCurrentText' = s.hasSkippedCurrentText
    /\ currentFullText' = s.currentFullText
    /\ segments' = s.segments
    /\ currentSegmentIndex' = s.currentSegmentIndex
    /\ currentSegmentCharIndex' = s.currentSegmentCharIndex
    /\ continueResolve' = s.continueResolve
    /\ indicator' = s.indicator
    /\ children' = s.children
    /\ attached' = s.attached
    /\ orphanTimers' = s.orphanTimers
    /\ delayTimers' = s.delayTimers
    /\ nextId' = s.nextId
    /\ started' = s.started
    /\ discarded' = s.discarded
    /\ lastOp' = s.lastOp
    /\ stepAppends' = s.stepAppends
    /\ stepGates' = s.stepGates
    /\ interrupted' = s.interrupted
    /\ staleWaiter' = s.staleWaiter
    /\ staleDelays' = s.staleDelays
    /\ stepStale' = s.stepStale

\* null, and a string held in a field that may be null
Null == <<>>
Some(text) == <<text>>

\* JavaScript truthiness of a string-or-null field: null and "" are falsy.
Truthy(field) == field # Null /\ field[1] # <<>>

\* A task begins: the per-task history starts afresh.
Begin(op) ==
    [Cur EXCEPT !.lastOp = op, !.stepAppends = 0, !.stepGates = 0, !.stepStale = FALSE]

\* ---------------------------------------------------------------- the DOM

Span(seg, effect, text) == [kind |-> "span", seg |-> seg, effect |-> effect, text |-> text]
Br == [kind |-> "br", seg |-> -1, effect |-> NoEffect, text |-> <<>>]

\* textElement.querySelector('[data-segment="i"]'): the position of the first
\* such child, or 0.
QuerySegment(nodes, i) ==
    Least({ n \in 1..Len(nodes) : nodes[n].kind = "span" /\ nodes[n].seg = i })

\* typeChar lines 400-411: get or create the segment's span, append the character.
AppendChar(nodes, i, effect, char) ==
    LET n == QuerySegment(nodes, i)
    IN  IF n = 0
        THEN Append(nodes, Span(i, effect, <<char>>))
        ELSE [nodes EXCEPT ![n].text = Append(@, char)]

\* skip lines 491-498: one span per segment with its full text, no data-segment.
RenderAll(segs) == [i \in 1..Len(segs) |-> Span(-1, segs[i].effect, segs[i].text)]

showContinueIndicator(s) == [s EXCEPT !.indicator = "block"]
hideContinueIndicator(s) == [s EXCEPT !.indicator = "none"]

\* ------------------------------------------------------------ the methods

\* waitForContinue() called by `who`: a processQueue that awaits the promise
\* ("loop"), or skip(), which drops it ("orphan").
waitForContinue(s, who) ==
    IF ~s.options.waitForInput
    THEN s
    ELSE showContinueIndicator([s EXCEPT !.continueResolve = who, !.staleWaiter = FALSE])

\* wait(ms): a timer the controller keeps no handle of.
wait(s) == [s EXCEPT !.delayTimers = @ + 1]

\* The gate taking the delayAfter branch whatever waitForInput says.
processQueueGateTimer(s) == wait(s)

\* processQueue after `await this.typeText(text)`: the gate.  The invocation
\* stays suspended in it until the waiter is resolved or the timer fires.
processQueueGate(s) ==
    IF s.options.waitForInput
    THEN waitForContinue(s, "loop")
    ELSE wait(s)

\* typeChar scheduling a timer to move on from an exhausted segment.
typeCharSegmentTick(s) ==
    IF s.currentSegmentIndex < Len(s.segments)
    THEN LET segment == s.segments[s.currentSegmentIndex + 1] IN
         IF s.currentSegmentCharIndex < Len(segment.text)
         THEN [s EXCEPT
                 !.children = AppendChar(@, s.currentSegmentIndex, segment.effect,
                                         segment.text[s.currentSegmentCharIndex + 1]),
                 !.currentSegmentCharIndex = @ + 1,
                 !.currentIndex = @ + 1,
                 !.orphanTimers = @ + (IF s.timeoutId = "live" THEN 1 ELSE 0),
                 !.timeoutId = "live",
                 !.stepAppends = @ + 1]
         ELSE [s EXCEPT !.currentSegmentIndex = @ + 1,
                        !.currentSegmentCharIndex = 0,
                        !.orphanTimers = @ + (IF s.timeoutId = "live" THEN 1 ELSE 0),
                        !.timeoutId = "live"]
    ELSE processQueueGate([s EXCEPT !.currentFullText = Null])

RECURSIVE typeChar(_)
\* The typeChar closure of typeText, run by typeText itself or by its timer.
\* setTimeout stores the new timer's id in this.timeoutId; a live timer whose
\* id was there stays scheduled.  resolve() resumes the processQueue that
\* awaits this typeText.
typeChar(s) ==
    IF s.currentSegmentIndex < Len(s.segments)
    THEN LET segment == s.segments[s.currentSegmentIndex + 1] IN
         IF s.currentSegmentCharIndex < Len(segment.text)
         THEN [s EXCEPT
                 !.children = AppendChar(@, s.currentSegmentIndex, segment.effect,
                                         segment.text[s.currentSegmentCharIndex + 1]),
                 !.currentSegmentCharIndex = @ + 1,
                 !.currentIndex = @ + 1,
                 !.orphanTimers = @ + (IF s.timeoutId = "live" THEN 1 ELSE 0),
                 !.timeoutId = "live",
                 !.stepAppends = @ + 1]
         ELSE typeChar([s EXCEPT !.currentSegmentIndex = @ + 1,
                                 !.currentSegmentCharIndex = 0])
    ELSE processQueueGate([s EXCEPT !.currentFullText = Null])

\* typeText(text): the fields are set, then typeChar() runs on that state
\* (`begun` is evaluated once).
typeText(s, text) ==
    CHOOSE typed \in
        { typeChar(begun) :
            begun \in {[s EXCEPT !.currentText = <<>>,
                                 !.currentIndex = 0,
                                 !.currentFullText = Some(text),
                                 !.segments = parseText(text),
                                 !.currentSegmentIndex = 0,
                                 !.currentSegmentCharIndex = 0,
                                 !.children = <<>>,
                                 !.interrupted = FALSE]} } : TRUE

\* processQueue taking the newest item (queue.pop() for queue.shift()).
processQueueLifo(s) ==
    IF Len(s.queue) = 0
    THEN hideContinueIndicator([s EXCEPT !.isTyping = FALSE])
    ELSE typeText([s EXCEPT !.isTyping = TRUE,
                            !.hasSkippedCurrentText = FALSE,
                            !.queue = SubSeq(@, 1, Len(@) - 1),
                            !.started = Append(@, s.queue[Len(s.queue)].id)],
                  s.queue[Len(s.queue)].text)

\* processQueue that does not reset hasSkippedCurrentText.
processQueueKeepsFlag(s) ==
    IF Len(s.queue) = 0
    THEN hideContinueIndicator([s EXCEPT !.isTyping = FALSE])
    ELSE typeText([s EXCEPT !.isTyping = TRUE,
                            !.queue = Tail(@),
                            !.started = Append(@, Head(s.queue).id)],
                  Head(s.queue).text)

\* processQueue up to `await this.typeText(text)`.
processQueue(s) ==
    IF Len(s.queue) = 0
    THEN hideContinueIndicator([s EXCEPT !.isTyping = FALSE])
    ELSE typeText([s EXCEPT !.isTyping = TRUE,
                            !.hasSkippedCurrentText = FALSE,
                            !.queue = Tail(@),
                            !.started = Append(@, Head(s.queue).id)],
                  Head(s.queue).text)

clear(s) ==
    [s EXCEPT !.timeoutId = "null",
              !.currentText = <<>>,
              !.currentIndex = 0,
              !.children = <<>>]

\* processQueue after its gate, without the closing this.processQueue().
processQueueResumeOnce(s) ==
    LET passed == [s EXCEPT !.stepGates = @ + 1] IN
    IF s.options.type = "disappear"
    THEN clear(passed)
    ELSE [passed EXCEPT !.children = Append(@, Br)]

\* processQueue after its gate: the display mode, then the next item.
processQueueResume(s) ==
    LET passed == [s EXCEPT !.stepGates = @ + 1] IN
    IF s.options.type = "disappear"
    THEN processQueue(clear(passed))
    ELSE processQueue([passed EXCEPT !.children = Append(@, Br)])

\* clearQueue() without `this.isTyping = false`.
clearQueueKeepsTyping(s) ==
    LET emptied == [s EXCEPT
                      !.queue = <<>>,
                      !.discarded = @ \cup { s.queue[i].id : i \in 1..Len(s.queue) },
                      !.interrupted = @ \/ Truthy(s.currentFullText),
                      !.staleWaiter = (s.continueResolve = "loop"),
                      !.staleDelays = s.delayTimers]
    IN  [clear(emptied) EXCEPT !.currentFullText = Null]

clearQueue(s) ==
    LET emptied == [s EXCEPT
                      !.queue = <<>>,
                      !.discarded = @ \cup { s.queue[i].id : i \in 1..Len(s.queue) },
                      !.interrupted = @ \/ Truthy(s.currentFullText),
                      !.staleWaiter = (s.continueResolve = "loop"),
                      !.staleDelays = s.delayTimers]
    IN  [clear(emptied) EXCEPT !.isTyping = FALSE, !.currentFullText = Null]

destroy(s) ==
    [clearQueue([s EXCEPT !.skipListeners = FALSE, !.continueListeners = FALSE])
        EXCEPT !.attached = FALSE]

\* skip() without the currentFullText test of its guard.
skipUnguarded(s) ==
    IF s.isTyping /\ ~s.hasSkippedCurrentText
    THEN LET done == [s EXCEPT
                        !.timeoutId = "null",
                        !.children = RenderAll(s.segments),
                        !.currentFullText = Null,
                        !.currentSegmentIndex = Len(s.segments),
                        !.hasSkippedCurrentText = TRUE,
                        !.isTyping = FALSE]
         IN  IF s.options.waitForInput THEN waitForContinue(done, "orphan") ELSE done
    ELSE s

skip(s) ==
    IF s.isTyping /\ Truthy(s.currentFullText) /\ ~s.hasSkippedCurrentText
    THEN LET done == [s EXCEPT
                        !.timeoutId = "null",
                        !.children = RenderAll(s.segments),
                        !.currentText = s.currentFullText[1],
                        !.currentIndex = Len(s.currentFullText[1]),
                        !.currentFullText = Null,
                        !.currentSegmentIndex = Len(s.segments),
                        !.hasSkippedCurrentText = TRUE,
                        !.isTyping = FALSE]
         IN  IF s.options.waitForInput THEN waitForContinue(done, "orphan") ELSE done
    ELSE s

\* The handlers' resolve without their hideContinueIndicator().
resolveContinueShown(s) ==
    LET released == [s EXCEPT !.continueResolve = "null", !.staleWaiter = FALSE]
    IN  IF s.continueResolve = "loop"
        THEN processQueueResume([released EXCEPT !.stepStale = @ \/ s.staleWaiter])
        ELSE released

\* hideContinueIndicator(); continueResolve(); continueResolve = null, and the
\* continuation that resolve releases.
resolveContinue(s) ==
    LET released == [hideContinueIndicator(s) EXCEPT !.continueResolve = "null",
                                                     !.staleWaiter = FALSE]
    IN  IF s.continueResolve = "loop"
        THEN processQueueResume([released EXCEPT !.stepStale = @ \/ s.staleWaiter])
        ELSE released

\* skipKeyHandler and skipClickHandler have the same body.
skipHandler(s) ==
    IF s.isTyping /\ ~s.hasSkippedCurrentText
    THEN skip(s)
    ELSE IF s.hasSkippedCurrentText /\ s.continueResolve # "null"
         THEN resolveContinue(s)
         ELSE s

\* continueKeyHandler and continueClickHandler have the same body.
continueHandler(s) ==
    IF ~s.options.skippable /\ s.continueResolve # "null" /\ s.indicator # "none"
    THEN resolveContinue(s)
    ELSE s

addToQueue(s, text) ==
    LET pushed == [s EXCEPT !.queue = Append(@, [id |-> s.nextId, text |-> text]),
                            !.nextId = @ + 1]
    IN  IF ~pushed.isTyping THEN processQueue(pushed) ELSE pushed

RECURSIVE pushAll(_, _)
\* texts.forEach(text => this.queue.push(text))
pushAll(s, texts) ==
    IF texts = <<>> THEN s
    ELSE pushAll([s EXCEPT !.queue = Append(@, [id |-> s.nextId, text |-> Head(texts)]),
                           !.nextId = @ + 1],
                 Tail(texts))

addMultipleToQueue(s, texts) ==
    LET pushed == pushAll(s, texts)
    IN  IF ~pushed.isTyping THEN processQueue(pushed) ELSE pushed

\* { ...this.options, ...newOptions }: the keys newOptions has take its values.
Spread(old, newOptions) ==
    [key \in DOMAIN old |->
        IF key \in DOMAIN newOptions THEN newOptions[key] ELSE old[key]]

\* updateOptions that also puts the reveal cursor back to the first segment.
updateOptionsRestart(s, newOptions) ==
    [s EXCEPT !.options = Spread(s.options, newOptions),
              !.currentSegmentIndex = 0,
              !.currentSegmentCharIndex = 0]

\* applyStyles() writes the style of container and textElement only.
updateOptions(s, newOptions) ==
    [s EXCEPT !.options = Spread(s.options, newOptions)]

\* ---------------------------------------------------------------- actions

OptionValues ==
    [waitForInput : BOOLEAN, skippable : BOOLEAN, type : {"disappear", "persist"}]

\* The records updateOptions is called with: no key, one key, or all of them.
PartialOptions ==
    { [key \in keys |-> full[key]] :
        keys \in {{}, {"waitForInput"}, {"skippable"}, {"type"},
                  {"waitForInput", "skippable", "type"}},
        full \in OptionValues }

\* The constructor: the listeners follow the options it was given.
Init ==
    /\ options \in OptionValues
    /\ skipListeners = options.skippable
    /\ continueListeners = options.waitForInput
    /\ queue = <<>>
    /\ isTyping = FALSE
    /\ currentText = <<>>
    /\ currentIndex = 0
    /\ timeoutId = "null"
    /\ hasSkippedCurrentText = FALSE
    /\ currentFullText = Null
    /\ segments = <<>>
    /\ currentSegmentIndex = 0
    /\ currentSegmentCharIndex = 0
    /\ continueResolve = "null"
    /\ indicator = "none"
    /\ children = <<>>
    /\ attached = TRUE
    /\ orphanTimers = 0
    /\ delayTimers = 0
    /\ nextId = 1
    /\ started = <<>>
    /\ discarded = {}
    /\ lastOp = "new"
    /\ stepAppends = 0
    /\ stepGates = 0
    /\ interrupted = FALSE
    /\ staleWaiter = FALSE
    /\ staleDelays = 0
    /\ stepStale = FALSE

AddToQueue ==
    /\ nextId <= MaxMsgs
    /\ \E text \in Texts : Set(addToQueue(Begin("addToQueue"), text))

AddMultipleToQueue ==
    \E texts \in Batches :
        /\ nextId + Len(texts) - 1 <= MaxMsgs
        /\ Set(addMultipleToQueue(Begin("addMultipleToQueue"), texts))

ClearQueue ==
    \E s \in {clearQueue(Begin("clearQueue"))} : Set(s)

Skip ==
    \E s \in {skip(Begin("skip"))} : Set(s)

Destroy ==
    \E s \in {destroy(Begin("destroy"))} : Set(s)

\* A key press, or a click on the text box: the subscribed handlers run in
\* the order they were subscribed in, the skip handler first.
InputSignal ==
    \E afterSkip \in {IF skipListeners THEN skipHandler(Begin("input")) ELSE Begin("input")} :
        Set(IF continueListeners THEN continueHandler(afterSkip) ELSE afterSkip)

\* The timer whose id this.timeoutId holds fires.
CharTimerFire ==
    /\ timeoutId = "live"
    /\ \E s \in {typeChar([Begin("charTimer") EXCEPT !.timeoutId = "fired"])} : Set(s)

\* A typeChar timer that a later setTimeout displaced from this.timeoutId fires.
OrphanTimerFire ==
    /\ orphanTimers > 0
    /\ Set(typeChar([Begin("charTimer") EXCEPT !.orphanTimers = @ - 1]))

\* A wait(delayAfter) timer fires and resumes its processQueue.
DelayTimerFire ==
    \E stale \in BOOLEAN :
        /\ IF stale THEN staleDelays > 0 ELSE delayTimers > staleDelays
        /\ \E s \in {processQueueResume(
                       [Begin("delayTimer") EXCEPT
                           !.delayTimers = @ - 1,
                           !.staleDelays = @ - (IF stale THEN 1 ELSE 0),
                           !.stepStale = stale])} : Set(s)

Next ==
    \/ AddToQueue
    \/ AddMultipleToQueue
    \/ ClearQueue
    \/ Skip
    \/ Destroy
    \/ InputSignal
    \/ CharTimerFire
    \/ OrphanTimerFire
    \/ DelayTimerFire

Spec == Init /\ [][Next]_vars

\* updateOptions(newOptions) at any moment, with any partial options record.
UpdateOptions ==
    \E newOptions \in PartialOptions :
        \E s \in {updateOptions(Begin("updateOptions"), newOptions)} : Set(s)

\* The controller with a caller that enqueues, skips and updates the options,
\* its timers and its input signals.
NextUpdate ==
    \/ AddToQueue
    \/ AddMultipleToQueue
    \/ Skip
    \/ InputSignal
    \/ CharTimerFire
    \/ DelayTimerFire
    \/ UpdateOptions

SpecUpdate == Init /\ [][NextUpdate]_vars

\* An input signal that skips nothing: no reveal is in progress, or the skip
\* handlers are not subscribed.
ContinueSignal ==
    /\ ~(skipListeners /\ Truthy(currentFullText))
    /\ InputSignal

\* The controller left to itself: messages are enqueued, timers fire and the
\* user continues; nobody calls skip(), clearQueue() or destroy().
NextDrain ==
    \/ AddToQueue
    \/ AddMultipleToQueue
    \/ ContinueSignal
    \/ CharTimerFire
    \/ DelayTimerFire

\* A timer that setTimeout scheduled and nobody cancels fires.
SpecDrain ==
    Init /\ [][NextDrain]_vars /\ WF_vars(CharTimerFire) /\ WF_vars(DelayTimerFire)

\* typeText(raw) called on the controller as constructed.
TypeText ==
    /\ lastOp = "new"
    /\ \E raw \in RawTexts : \E s \in {typeText(Begin("typeText"), raw)} : Set(s)

NextParse ==
    \/ TypeText

\* A freshly constructed controller and one typeText call with any raw text.
SpecParse == Init /\ [][NextParse]_vars

\* ----------------------------------------------------------------- claims

\* A message is being revealed: typeText set currentFullText and neither the
\* last character, skip nor clearQueue has reset it.
Revealing == Truthy(currentFullText)

\* The typeChar timers that are scheduled.
LiveCharTimers == (IF timeoutId = "live" THEN 1 ELSE 0) + orphanTimers

\* The processQueue invocations that some timer or waiter can still resume.
ActiveLoops ==
    LiveCharTimers + (IF continueResolve = "loop" THEN 1 ELSE 0) + delayTimers

QueueIds == [i \in 1..Len(queue) |-> queue[i].id]
Enqueued == [i \in 1..(nextId - 1) |-> i]
NotDiscarded(id) == id \notin discarded

IsPrefix(a, b) == Len(a) <= Len(b) /\ SubSeq(b, 1, Len(a)) = a

\* C1: messages begin revealing in FIFO order: the messages that began
\* revealing, followed by those still queued, are the enqueued messages that
\* clearQueue did not discard, in the order they were enqueued.
C1_FifoOrder == started \o QueueIds = SelectSeq(Enqueued, NotDiscarded)

\* C1 witness: message 2 was discarded by clearQueue and message 3 was the
\* second to begin revealing.
C1_Witness == started = <<1, 3>> /\ discarded = {2}

\* C2: at most one processQueue drain loop is active: at most one suspension
\* (character timer, continue-waiter or delayAfter timer) is outstanding.
C2_SingleDrainLoop == ActiveLoops <= 1

\* C3: skip() on a message that is mid-reveal resolves the completion signal
\* of its typeText: in the task in which the skip flag is set, the processQueue
\* that awaits the reveal resumes and enters its gate (it stores its
\* continue-waiter, or starts its delayAfter timer).
C3_SkipResolvesCompletion ==
    [][ (~hasSkippedCurrentText /\ hasSkippedCurrentText')
        => IF options.waitForInput
           THEN continueResolve' = "loop"
           ELSE delayTimers' = delayTimers + 1 ]_vars

\* C4: two-press semantics with skippable and waitForInput: an input signal
\* during a reveal finishes the text; the input signal after that one, with a
\* further message queued, hides the continue affordance and starts the
\* reveal of the next message.
C4_TwoPress ==
    [][ (options.skippable /\ options.waitForInput /\ skipListeners /\ lastOp' = "input")
        => /\ (isTyping /\ Revealing)
                => (children' = RenderAll(segments) /\ ~Revealing' /\ hasSkippedCurrentText')
           /\ (lastOp = "input" /\ hasSkippedCurrentText /\ continueResolve # "null"
                 /\ queue # <<>>)
                => (indicator' = "none" /\ started' = Append(started, Head(queue).id)) ]_vars

\* C5: with waitForInput, once the timer has ended a message's reveal and the
\* drain loop has shown the continue affordance and waits, an input signal
\* resolves the waiter and the loop advances: it passes its gate and reveals
\* the next message, if there is one.
C5_InputResolvesWaiter ==
    [][ (options.waitForInput /\ continueListeners /\ lastOp' = "input"
            /\ lastOp = "charTimer" /\ stepAppends = 0
            /\ ~Revealing /\ indicator = "block" /\ continueResolve = "loop")
        => /\ stepGates' = 1
           /\ started' = IF queue # <<>> THEN Append(started, Head(queue).id)
                         ELSE started ]_vars

\* C6: the continue gate with waitForInput and without skippable: a drain loop
\* passes its gate only in the task of an input signal that finds its waiter
\* pending and the affordance shown; and each input signal that finds them
\* so passes exactly one gate and begins at most the one next message.
C6_ContinueGate ==
    [][ (options.waitForInput /\ ~options.skippable)
        => /\ (stepGates' > 0)
                => (lastOp' = "input" /\ continueResolve = "loop" /\ indicator = "block")
           /\ (lastOp' = "input" /\ continueListeners
                 /\ continueResolve = "loop" /\ indicator = "block")
                => /\ stepGates' = 1
                   /\ started' = IF queue # <<>> THEN Append(started, Head(queue).id)
                                 ELSE started ]_vars

\* C6 witness: an input signal passed the gate of the first message and the
\* second message began revealing.
C6_Witness ==
    /\ options.waitForInput /\ ~options.skippable
    /\ lastOp = "input" /\ stepGates = 1
    /\ started = <<1, 2>>

\* C7: with waitForInput and without skippable, an input signal that arrives
\* while a message is being revealed (its character timer is live) changes
\* nothing.
C7_InputIgnoredWhileRevealing ==
    [][ (options.waitForInput /\ ~options.skippable /\ Revealing
            /\ timeoutId = "live" /\ lastOp' = "input")
        => UNCHANGED << queue, isTyping, segments, currentSegmentIndex,
                        currentSegmentCharIndex, currentIndex, currentFullText,
                        children, timeoutId, orphanTimers >> ]_vars

\* C8: clearQueue() abandons the drain loop suspended in its gate: no later
\* task resumes a processQueue continuation that was suspended on a
\* continue-waiter or a delayAfter timer when clearQueue was called.
C8_ClearQueueAbandonsLoop == attached => ~stepStale

\* C9: clearQueue() leaves the queue empty and isTyping false, and after it
\* cut a reveal short no character is appended until a new reveal begins.
C9_ClearQueueStopsReveal ==
    /\ lastOp = "clearQueue" => (queue = <<>> /\ ~isTyping)
    /\ (attached /\ interrupted) => stepAppends = 0

\* C10: persist mode: the task that passes a message's gate keeps the content
\* revealed so far and puts a line break after it, also when it goes on to
\* reveal the next message: the surface then begins with the earlier content
\* and the separator.
C10_PersistAccumulates ==
    [][ (options.type = "persist" /\ children # <<>> /\ ~Revealing
            /\ stepGates' > 0 /\ ~stepStale')
        => IsPrefix(Append(children, Br), children') ]_vars

RECURSIVE ContentChars(_)
\* The characters the content nodes of the surface hold.
ContentChars(nodes) ==
    IF nodes = <<>> THEN 0 ELSE Len(Head(nodes).text) + ContentChars(Tail(nodes))

\* A message's gating period ends in this step: a processQueue passes its
\* gate, or the input signal after the one that skipped resolves the
\* continue-waiter of the skip-completed message.
GateEnds ==
    \/ stepGates' > 0
    \/ lastOp = "input" /\ lastOp' = "input" /\ skipListeners /\ hasSkippedCurrentText
         /\ continueResolve # "null" /\ continueResolve' = "null"

\* C11: disappear mode: when a message's gating period ends, the surface is
\* left with no content node of the messages revealed so far: it holds
\* nothing but the characters this task appended for the next message, and
\* nothing at all when the controller goes idle.
C11_DisappearClears ==
    [][ (options.type = "disappear" /\ GateEnds)
        => /\ \A n \in 1..Len(children') : children'[n].kind = "span"
           /\ ContentChars(children') = stepAppends' ]_vars


\* The state of the controller and of its surface, without the history.
controller ==
    << options, skipListeners, continueListeners, queue, isTyping, currentText,
       currentIndex, timeoutId, hasSkippedCurrentText, currentFullText, segments,
       currentSegmentIndex, currentSegmentCharIndex, continueResolve, indicator,
       children, attached, orphanTimers, delayTimers >>

\* C12: a skip() call for a message that was already skipped, or whose reveal
\* already completed, changes neither the rendered content nor any controller
\* state; hasSkippedCurrentText becomes true only by skipping a message in
\* reveal, and becomes false again only when processQueue starts the next
\* message.
C12_SkipIdempotent ==
    [][ /\ (lastOp' = "skip" /\ (hasSkippedCurrentText \/ ~Revealing))
            => UNCHANGED controller
        /\ (~hasSkippedCurrentText /\ hasSkippedCurrentText')
            => (Revealing /\ ~Revealing' /\ started' = started)
        /\ (hasSkippedCurrentText /\ ~hasSkippedCurrentText')
            => Len(started') > Len(started) ]_vars

\* skip() was called again for a skipped message whose continue-waiter an input
\* signal had resolved, or for a message that completed by itself and waits in
\* its gate.
C12_Witness ==
    /\ lastOp = "skip"
    /\ children # <<>>
    /\ options.waitForInput
    /\ \/ hasSkippedCurrentText /\ continueResolve = "null"
       \/ ~hasSkippedCurrentText /\ isTyping /\ ~Revealing /\ continueResolve = "loop"


\* Every enqueued message has been started and revealed to its end, the
\* controller is idle, nothing is queued and the continue indicator is hidden.
Drained ==
    /\ Len(started) = nextId - 1
    /\ ~Revealing
    /\ ~isTyping
    /\ queue = <<>>
    /\ indicator = "none"

\* C13: without waitForInput, and with no skip, clearQueue or destroy, fair
\* timers drain the queue: a message starts only after the one before it was
\* revealed to its end, and the controller always comes to rest idle with every
\* enqueued message started and revealed, the queue empty and the indicator
\* hidden.
C13_DrainTerminates ==
    /\ [][ started' # started => (~Revealing /\ Len(started') = Len(started) + 1) ]_vars
    /\ [](~options.waitForInput => <>Drained)

\* Several messages were enqueued and the last delayAfter timer left the
\* controller drained.
C13_Witness ==
    /\ ~options.waitForInput
    /\ Drained
    /\ Len(started) >= 2
    /\ lastOp = "delayTimer"


RECURSIVE Flatten(_)
\* The characters of a sequence of segments, or of content nodes, in order.
Flatten(parts) ==
    IF parts = <<>> THEN <<>> ELSE Head(parts).text \o Flatten(Tail(parts))

\* C14: with no skip, clearQueue or destroy, a reveal appends the characters of
\* its segments' texts one by one and in order: while it lasts the surface
\* holds the first currentIndex of them; no task appends more than one; a timer
\* tick that finds characters left appends exactly the next one, also when it
\* first has to move on from an exhausted segment; the tick that finds none
\* left appends nothing and completes the reveal with all of them shown.
C14_OneCharPerTick ==
    /\ [](Revealing =>
            /\ currentIndex >= 1
            /\ Flatten(children) = SubSeq(Flatten(segments), 1, currentIndex))
    /\ [][ /\ stepAppends' <= 1
           /\ (lastOp' = "charTimer" /\ Revealing) =>
                IF currentIndex < Len(Flatten(segments))
                THEN /\ stepAppends' = 1
                     /\ Revealing'
                     /\ currentIndex' = currentIndex + 1
                     /\ segments' = segments
                ELSE /\ stepAppends' = 0
                     /\ ~Revealing'
                     /\ children' = children
                     /\ Flatten(children) = Flatten(segments) ]_vars

\* A timer tick found the first segment of "{w:x}y" exhausted, moved on to the
\* second and appended its first character.
C14_Witness ==
    /\ lastOp = "charTimer"
    /\ stepAppends = 1
    /\ Revealing
    /\ currentSegmentIndex = 1
    /\ currentSegmentCharIndex = 1
    /\ Len(children) = 2


\* C15: after destroy() the next input signal or timer changes nothing: no
\* processQueue resumes, no character is appended, and the queue, the flags,
\* the reveal cursor, the continue-waiter, the indicator and the surface stay
\* as destroy() left them.
C15_DestroyIsFinal ==
    [][ (lastOp = "destroy" /\ lastOp' \in {"input", "charTimer", "delayTimer"})
        => /\ stepGates' = 0
           /\ stepAppends' = 0
           /\ UNCHANGED << queue, isTyping, currentText, currentIndex, timeoutId,
                           hasSkippedCurrentText, currentFullText, segments,
                           currentSegmentIndex, currentSegmentCharIndex,
                           continueResolve, indicator, children, attached >> ]_vars


\* C16: updateOptions changes the options record and nothing of the reveal in
\* flight: the queue, isTyping, the segments and the cursor in them,
\* hasSkippedCurrentText, the continue-waiter, the timers, the subscribed
\* handlers and the surface's content are as they were before the call.
C16_UpdateOptionsFrame ==
    [][ lastOp' = "updateOptions"
        => UNCHANGED << queue, isTyping, currentText, currentIndex, currentFullText,
                        segments, currentSegmentIndex, currentSegmentCharIndex,
                        hasSkippedCurrentText, continueResolve, timeoutId,
                        orphanTimers, delayTimers, skipListeners, continueListeners,
                        indicator, children, attached >> ]_vars

\* updateOptions was called in the middle of a reveal, with the second segment
\* begun and the character timer live, and changed an option.
C16_Witness ==
    /\ lastOp = "updateOptions"
    /\ Revealing
    /\ timeoutId = "live"
    /\ currentSegmentIndex = 1
    /\ queue # <<>>
    /\ options.waitForInput # continueListeners


\* A marker {tag:content} starts at position i of raw: "{", one or more word
\* characters, ":", one or more characters other than "}", "}".  The marker, if
\* any, is unique: Marker gives the positions of its ":" and its "}".
IsMarker(raw, i, colon, close) ==
    /\ i < colon /\ colon < close /\ close <= Len(raw)
    /\ raw[i] = "{" /\ raw[colon] = ":" /\ raw[close] = "}"
    /\ colon > i + 1 /\ close > colon + 1
    /\ \A j \in (i + 1)..(colon - 1) : raw[j] \in WordChars
    /\ \A j \in (colon + 1)..(close - 1) : raw[j] # "}"

MarkersAt(raw, i) ==
    { m \in (1..Len(raw)) \X (1..Len(raw)) : IsMarker(raw, i, m[1], m[2]) }

RECURSIVE StripFrom(_, _)
\* raw from position i on, read left to right, each marker replaced by its
\* content.
StripFrom(raw, i) ==
    IF i > Len(raw) THEN <<>>
    ELSE IF MarkersAt(raw, i) = {}
         THEN <<raw[i]>> \o StripFrom(raw, i + 1)
         ELSE LET m == CHOOSE m \in MarkersAt(raw, i) : TRUE
              IN  SubSeq(raw, m[1] + 1, m[2] - 1) \o StripFrom(raw, m[2] + 1)

HasMarker(raw) == \E i \in 1..Len(raw) : MarkersAt(raw, i) # {}

\* C17: the segments parseText returns for a raw text, concatenated, are the
\* raw text with every marker replaced by its content; no segment's text is
\* empty unless the raw text is; a raw text with no marker gives exactly one
\* segment, the raw text with no effect.  (typeText stores the raw text in
\* currentFullText and parseText's result in segments; only the empty text
\* completes at once.)
C17_ParseText ==
    lastOp = "typeText" =>
        IF currentFullText = Null
        THEN segments = <<[text |-> <<>>, effect |-> NoEffect]>>
        ELSE LET raw == currentFullText[1] IN
             /\ raw # <<>>
             /\ Flatten(segments) = StripFrom(raw, 1)
             /\ \A n \in 1..Len(segments) : segments[n].text # <<>>
             /\ ~HasMarker(raw) => segments = <<[text |-> raw, effect |-> NoEffect]>>

\* A raw text with plain text on both sides of a marker was parsed into three
\* segments, the second with the marker's effect.
C17_Witness ==
    /\ lastOp = "typeText"
    /\ Len(segments) = 3
    /\ segments[1].effect = NoEffect
    /\ segments[2].effect = <<"w">>
    /\ segments[3].effect = NoEffect


\* C18 as stated: while isTyping is true the queue is non-empty, or a message
\* is being revealed, or the current message was skip-completed and awaits
\* continue.
C18_QueueOrCursor ==
    isTyping =>
        \/ queue # <<>>
        \/ currentFullText # Null
        \/ hasSkippedCurrentText /\ continueResolve # "null"

\* C18: while isTyping is true the queue is non-empty, or a message is being
\* revealed, or a processQueue is suspended in the gate that follows a reveal:
\* a continue-waiter is stored or a delayAfter timer is scheduled.
C18_QueueCursorOrGate ==
    isTyping =>
        \/ queue # <<>>
        \/ currentFullText # Null
        \/ continueResolve # "null"
        \/ delayTimers > 0

\* The last message was revealed to its end and its processQueue waits in the
\* gate: isTyping is true with the queue empty and no reveal in progress.
C18_Witness ==
    /\ isTyping
    /\ queue = <<>>
    /\ currentFullText = Null
    /\ ~hasSkippedCurrentText
    /\ lastOp = "charTimer"
    /\ children # <<>>
    /\ continueResolve = "loop" \/ delayTimers > 0


\* C19: whenever the continue indicator is visible a continue-waiter is
\* stored; a step that makes it visible leaves a waiter stored, and a step
\* that clears the waiter leaves the indicator hidden.
C19_IndicatorNeedsWaiter ==
    /\ [](indicator = "block" => continueResolve # "null")
    /\ [][ /\ (indicator = "none" /\ indicator' = "block") => continueResolve' # "null"
           /\ (continueResolve # "null" /\ continueResolve' = "null")
                => indicator' = "none" ]_vars

\* An input signal resolved the waiter of one message, the next message was
\* revealed to its end, and the indicator is visible again with the waiter of
\* that message stored.
C19_Witness ==
    /\ indicator = "block"
    /\ continueResolve = "loop"
    /\ Len(started) >= 2
    /\ lastOp = "charTimer"


\* C20: whenever hasSkippedCurrentText is true isTyping is false; an addToQueue
\* after a skip therefore starts a processQueue, which starts the message,
\* sets isTyping and resets the flag in that same step.
C20_SkippedMeansIdle ==
    /\ [](hasSkippedCurrentText => ~isTyping)
    /\ [][ (hasSkippedCurrentText /\ lastOp' = "addToQueue")
            => /\ Len(started') = Len(started) + 1
               /\ isTyping'
               /\ ~hasSkippedCurrentText' ]_vars

\* A message was skipped while another was queued: the flag is set and the
\* controller reports idle with its queue not empty.
C20_Witness ==
    /\ hasSkippedCurrentText
    /\ ~isTyping
    /\ queue # <<>>
    /\ lastOp \in {"skip", "input"}

====
